---- MODULE Spec2Model ----
(***************************************************************************)
(* Model of the webhook pipeline of src/publicars_bot.py                   *)
(* (evolution_webhook and the helpers it calls).                           *)
(*                                                                         *)
(* Strings are sequences of atoms (an atom is a run of characters that no  *)
(* operation of the program cuts); split, "in" and concatenation are       *)
(* computed on those sequences.  Python values are tagged records.         *)
(*                                                                         *)
(* The handler is a coroutine on a single-threaded event loop: its steps   *)
(* are the stretches of code between two awaits.  The store calls          *)
(* (supabase ... .execute()) are synchronous, so they belong to the step   *)
(* that contains them.  Each request is one instance of the handler.       *)
(***************************************************************************)
EXTENDS Integers, Sequences, FiniteSets, TLC

VARIABLES
    conversations,  \* the 'conversations' table, oldest row first
    table0,         \* the 'conversations' table as the first request found it
    pc,             \* per request: the await the handler is suspended at
    payload,        \* per request: the EvolutionWebhookPayload it received
    locals,         \* per request: user_message_text, agent_response_text, ...
    fetches,        \* per request: media-fetch calls issued to the gateway
    transcribes,    \* per request: transcription calls issued
    reads,          \* per request: store reads issued (table, key)
    agentCalls,     \* per request: agent invocations issued
    inserts,        \* per request: insert calls issued on 'conversations'
    sends,          \* per request: send-text calls issued to the gateway
    faults,         \* per request: the external calls that failed
    http            \* per request: HTTP status returned (0: none yet)

vars == <<conversations, table0, pc, payload, locals, fetches, transcribes, reads,
          agentCalls, inserts, sends, faults, http>>

----------------------------------------------------------------------------
(* Bounds *)

\* number of rows the 'conversations' table holds before the first request,
\* when it is not empty
MaxPrior == 8

\* number of external calls that may fail within one request
MaxFaults == 1

\* the concurrent webhook requests
Reqs == {"r1", "r2"}

----------------------------------------------------------------------------
(* Strings and Python values *)

\* s[i..] starts with the sequence t
StartsAt(s, i, t) ==
    /\ i + Len(t) - 1 <= Len(s)
    /\ \A k \in 1..Len(t) : s[i + k - 1] = t[k]

\* Python's  t in s  on strings
Contains(s, t) == \E i \in 1..(Len(s) + 1) : StartsAt(s, i, t)

\* Python's  s.split(sep)[0]  for a one-atom separator
SplitHead(s, sep) ==
    IF \E i \in 1..Len(s) : s[i] = sep
    THEN LET i == CHOOSE j \in 1..Len(s) :
                      s[j] = sep /\ \A k \in 1..(j - 1) : s[k] # sep
         IN  SubSeq(s, 1, i - 1)
    ELSE s

PyNone == [tag |-> "none"]
\* a key that the dict does not have
Absent == [tag |-> "absent"]
PyStr(s) == [tag |-> "str", s |-> s]

\* Python truthiness of the values that occur (None, str, dict); a dict is a
\* record whose fields are its possible keys, Absent marking a missing key
Truthy(v) ==
    CASE v.tag = "none" -> FALSE
      [] v.tag = "absent" -> FALSE
      [] v.tag = "str" -> v.s # <<>>
      [] v.tag = "dict" -> \E k \in (DOMAIN v) \ {"tag"} : v[k] # Absent
      [] OTHER -> FALSE

\* dict.get(key, default); dict.get(key) is Get(d, key, PyNone)
Get(d, key, default) == IF d[key] = Absent THEN default ELSE d[key]

----------------------------------------------------------------------------
(* Fixed texts of the program *)

\* agent_response_text as initialised
LapseText == <<"Desculpe, tive um lapso de memoria. Pode repetir?">>

\* agent_response_text set by the except clause
ApologyText == <<"Desculpe, estou atualizando meus sistemas. Tente novamente em 1 minuto!">>

\* what transcribe_audio returns on failure
TranscriptionErrorText == <<"[ERRO", " DE TRANSCRICAO]">>

\* the marker the handler looks for in a transcript
ErrorMarker == <<"[ERRO">>

WhatsAppSuffix == <<"@", "s.whatsapp.net">>

RecognizedEvents == {"messages.upsert", "messages.update"}

\* .limit(6) of the history query
HistoryLimit == 6

\* file extension per audio mimetype; get() of a missing key gives None
mimetype_map ==
    [m \in {"audio/ogg", "audio/aac", "audio/mp4", "audio/mpeg", "audio/wav",
            "audio/webm"} |->
        CASE m = "audio/ogg" -> ".ogg"
          [] m = "audio/aac" -> ".aac"
          [] m = "audio/mp4" -> ".m4a"
          [] m = "audio/mpeg" -> ".mp3"
          [] m = "audio/wav" -> ".wav"
          [] m = "audio/webm" -> ".webm"]

----------------------------------------------------------------------------
(* Inputs: the payloads a request may carry *)

TextOi == <<" ", "oi", " ">>
TextQuero == <<"quero", " ", "anunciar">>

JidA == <<"5551999", "@", "s.whatsapp.net">>
JidB == <<"5551888", "@", "s.whatsapp.net">>
\* the address of a group chat
JidGroup == <<"120363025", "-", "1633", "@", "g.us">>
Jids == {JidA, JidB, JidGroup}

\* payload.data.message when it is a dict: its recognised keys
Message(conv, ext, audio, image, doc) ==
    [tag |-> "dict", conversation |-> conv, extendedTextMessage |-> ext,
     audioMessage |-> audio, imageMessage |-> image, documentMessage |-> doc]

ExtText(t) == [tag |-> "dict", text |-> t]
Audio(m) == [tag |-> "dict", mimetype |-> m]
Attachment(m, name, cap) ==
    [tag |-> "dict", mimetype |-> m, fileName |-> name, caption |-> cap]

AudioOgg == Audio(PyStr(<<"audio/ogg", ";", " codecs=opus">>))
\* a malformed audio attachment: "mimetype": null
AudioNullMime == Audio(PyNone)
ImageCnh == Attachment(PyStr(<<"image/jpeg">>), PyStr(<<"cnh.jpg">>), Absent)
DocContrato ==
    Attachment(PyStr(<<"application/pdf">>), PyStr(<<"contrato.pdf">>),
               PyStr(<<"segue">>))

MsgOi == Message(PyStr(TextOi), Absent, Absent, Absent, Absent)
MsgAudio == Message(Absent, Absent, AudioOgg, Absent, Absent)

Messages ==
    { PyNone,
      MsgOi,
      Message(PyStr(<<>>), ExtText(PyStr(TextQuero)), Absent, Absent, Absent),
      Message(PyStr(TextOi), ExtText(PyStr(TextQuero)), Absent, Absent, Absent),
      Message(Absent, ExtText(Absent), Absent, Absent, Absent),
      \* malformed: "extendedTextMessage": null
      Message(Absent, PyNone, Absent, Absent, Absent),
      MsgAudio,
      Message(PyStr(TextOi), Absent, AudioOgg, Absent, Absent),
      Message(Absent, Absent, AudioNullMime, Absent, Absent),
      Message(Absent, Absent, Absent, ImageCnh, Absent),
      Message(Absent, Absent, Absent, Absent, DocContrato),
      Message(Absent, Absent, Absent, Absent, Absent) }

\* EvolutionWebhookPayload, the fields the handler reads
Payload(e, me, jid, id, msg) ==
    [event |-> e, fromMe |-> me, remoteJid |-> jid, id |-> id, message |-> msg]

\* the payloads a request may carry: every message from customer A; a text
\* from customer B; a text from a group chat; a text under the other
\* recognised event kind; an audio without a message id; ignored events
Payloads ==
    {Payload("messages.upsert", FALSE, JidA, <<"m1">>, m) : m \in Messages}
    \cup {Payload("messages.upsert", FALSE, JidB, <<"m1">>, MsgOi),
          Payload("messages.upsert", FALSE, JidGroup, <<"m1">>, MsgOi),
          Payload("messages.update", FALSE, JidA, <<"m1">>, MsgOi),
          Payload("messages.upsert", FALSE, JidA, <<>>, MsgAudio),
          Payload("connection.update", FALSE, JidA, <<"m1">>, MsgAudio)}
    \cup {Payload(e, TRUE, JidA, <<"m1">>, MsgOi) :
             e \in RecognizedEvents \cup {"connection.update"}}

\* what the transcription service may answer
Transcripts == {TextQuero, <<>>, TranscriptionErrorText}

\* what the agent may answer
Replies == {<<"Show de bola!">>, <<"Certo. ", "[SILENCE]", " Ate logo">>}

\* a row of the 'leads' table as the profile query selects it
ProfileAna ==
    [tag |-> "dict", full_name |-> PyStr(<<"Ana">>),
     company_name |-> PyStr(<<"Padaria">>), service_desired |-> PyNone]

----------------------------------------------------------------------------
(* Pure parts of the handler *)

\* line 320 with "and" for "or": only self-sent events of a foreign kind
IgnoredBoth(p) == p.event \notin RecognizedEvents /\ p.fromMe

\* line 320: the event is dropped without any processing
Ignored(p) == p.event \notin RecognizedEvents \/ p.fromMe

\* line 324: contact_number_plus
CustomerKey(jid) == <<"+">> \o SplitHead(jid, "@")

\* send_whatsapp_message, line 100: the number the text is sent to
SendAddress(jid) ==
    IF ~Contains(jid, WhatsAppSuffix) THEN jid \o WhatsAppSuffix ELSE jid

\* lines 343-344: file_extension of an audio attachment (mimetype is a str)
FileExtension(mimetype) ==
    LET m == SplitHead(mimetype.s, ";") IN
    IF Len(m) = 1 /\ m[1] \in DOMAIN mimetype_map
    THEN PyStr(<<mimetype_map[m[1]]>>)
    ELSE PyNone

\* lines 368-370 with the two lookups swapped: the extended text first
TextOfExtFirst(msg) ==
    LET ext == Get(msg, "extendedTextMessage", ExtText(Absent)) IN
    IF ext.tag # "dict" THEN [kind |-> "raise"]
    ELSE IF Truthy(Get(ext, "text", PyNone))
         THEN [kind |-> "text", umt |-> Get(ext, "text", PyNone)]
         ELSE [kind |-> "text", umt |-> Get(msg, "conversation", PyNone)]

\* lines 368-370: the text branch; "raise" when .get is called on a non-dict
TextOf(msg) ==
    LET conv == Get(msg, "conversation", PyNone) IN
    IF Truthy(conv) THEN [kind |-> "text", umt |-> conv]
    ELSE LET ext == Get(msg, "extendedTextMessage", ExtText(Absent)) IN
         IF ext.tag # "dict" THEN [kind |-> "raise"]
         ELSE [kind |-> "text", umt |-> Get(ext, "text", PyNone)]

\* lines 337-370 with the text looked up before the audio
ClassifyTextFirst(p) ==
    LET msg == p.message IN
    IF ~Truthy(msg) THEN [kind |-> "text", umt |-> PyNone]
    ELSE LET audio == Get(msg, "audioMessage", PyNone)
             text == TextOf(msg)
         IN  IF text.kind = "text" /\ Truthy(text.umt) THEN text
             ELSE IF Truthy(audio)
             THEN LET mimetype == Get(audio, "mimetype", PyStr(<<>>)) IN
                  IF mimetype.tag # "str" THEN [kind |-> "raise"]
                  ELSE IF p.id # <<>>
                       THEN [kind |-> "fetch", ext |-> FileExtension(mimetype)]
                       ELSE [kind |-> "text", umt |-> PyNone]
             ELSE text

\* lines 337-370 up to the first await: what the handler does with the
\* payload: "fetch" (ask the gateway for the audio), "text" (user_message_text
\* is known, possibly None) or "raise" (an exception reaches line 407)
Classify(p) ==
    LET msg == p.message IN
    IF ~Truthy(msg) THEN [kind |-> "text", umt |-> PyNone]
    ELSE LET audio == Get(msg, "audioMessage", PyNone) IN
         IF Truthy(audio)
         THEN LET mimetype == Get(audio, "mimetype", PyStr(<<>>)) IN
              IF mimetype.tag # "str" THEN [kind |-> "raise"]
              ELSE IF p.id # <<>>
                   THEN [kind |-> "fetch", ext |-> FileExtension(mimetype)]
                   ELSE [kind |-> "text", umt |-> PyNone]
         ELSE TextOf(msg)

\* line 409 left out: the except clause keeps the text it finds
ExceptReplyKept(current) == current

\* line 409: agent_response_text after the except clause
ExceptReply(current) == ApologyText

\* lines 412-416 without the inner try: a failed insert leaves the handler
InsertResultRaises(out) == IF out = "fail" THEN "raised" ELSE "returned"

\* lines 412-416: what the handler sees of the insert; the bare except
\* swallows a failure
InsertResult(out) == "returned"

\* lines 104-108 without the try: a failed post leaves the handler
SendResultRaises(out) == IF out = "fail" THEN "raised" ELSE "returned"

\* lines 104-108: what the handler sees of the gateway post
SendResult(out) == "returned"

\* lines 348-364 without the inner try: a failed fetch reaches line 407
FetchResultRaises(out) == IF out = "error" THEN "raised" ELSE "returned"

\* lines 348-364: what the handler sees of the media fetch; the inner except
\* logs a failure and sets parsing_error
FetchResult(out) == "returned"

\* lines 87-95: what the handler sees of the profile query; get_user_profile
\* catches a failure and returns None
ProfileResult(out) == "returned"

\* lines 386-393 without the try: a failed history query leaves the block
HistoryResultRaises(out) == IF out = "fail" THEN "raised" ELSE "returned"

\* lines 386-393: what the handler sees of the history query; the except
\* clause logs a failure and the list stays empty
HistoryResult(out) == "returned"

Reverse(s) == [i \in 1..Len(s) |-> s[Len(s) + 1 - i]]
Take(s, n) == SubSeq(s, 1, IF Len(s) < n THEN Len(s) ELSE n)

\* line 387 without .eq('session_id', ...): the newest rows of any customer
RecentTurnsAnyKey(table, key) == Take(Reverse(table), HistoryLimit)

\* line 387: rows of the customer, newest first, at most HistoryLimit
RecentTurns(table, key) ==
    Take(Reverse(SelectSeq(table, LAMBDA row : row.session_id = key)),
         HistoryLimit)

RECURSIVE HistoryMessages(_)
\* lines 389-391 on rows already put oldest first
HistoryMessages(rows) ==
    IF rows = <<>> THEN <<>>
    ELSE <<[role |-> "human", content |-> Head(rows).user_message],
           [role |-> "ai", content |-> Head(rows).agent_response]>>
         \o HistoryMessages(Tail(rows))

\* lines 388-391: chat_history_messages
ChatHistory(table, key) == HistoryMessages(Reverse(RecentTurns(table, key)))

\* line 415 as an upsert on session_id: the row takes the place of the
\* customer's rows
InsertReplacing(table, row) ==
    Append(SelectSeq(table, LAMBDA old : old.session_id # row.session_id), row)

\* line 415 put off until the reply has been sent
InsertLater(table, row) == table

\* line 415: .insert(...).execute() adds the row at the end of the table
InsertInto(table, row) == Append(table, row)

\* line 372 clearing should_respond for the errors of lines 360-364 as well
ShouldRespondUnlessError(umt, perr) == Truthy(umt) /\ ~perr

\* lines 328 and 372: should_respond once line 372 has run; parsing_error
\* has no part in it
ShouldRespond(umt, perr) == Truthy(umt)

----------------------------------------------------------------------------
(* State *)

KeyA == CustomerKey(JidA)
KeyB == CustomerKey(JidB)

PriorTexts == <<"p1", "p2", "p3", "p4", "p5", "p6", "p7", "p8", "p9", "p10",
                "p11", "p12">>

\* the i-th row the table may hold before the first request
PriorRow(i) ==
    [session_id |-> IF i % 4 = 0 THEN KeyB ELSE KeyA,
     user_message |-> <<PriorTexts[((i - 1) % Len(PriorTexts)) + 1]>>,
     agent_response |-> <<"Show de bola!">>]

\* the table is new, or holds the rows of earlier conversations
InitialTables == {[i \in 1..n |-> PriorRow(i)] : n \in {0, MaxPrior}}

NoPayload == [event |-> "none"]

\* lines 326-329: the handler's variables as first assigned
InitialLocals ==
    [user_message_text |-> PyNone, agent_response_text |-> LapseText,
     should_respond |-> TRUE, parsing_error |-> FALSE,
     file_extension |-> PyNone]

Init ==
    /\ conversations \in InitialTables
    /\ table0 = conversations
    /\ pc = [r \in Reqs |-> "idle"]
    /\ payload = [r \in Reqs |-> NoPayload]
    /\ locals = [r \in Reqs |-> InitialLocals]
    /\ fetches = [r \in Reqs |-> <<>>]
    /\ transcribes = [r \in Reqs |-> <<>>]
    /\ reads = [r \in Reqs |-> <<>>]
    /\ agentCalls = [r \in Reqs |-> <<>>]
    /\ inserts = [r \in Reqs |-> <<>>]
    /\ sends = [r \in Reqs |-> <<>>]
    /\ faults = [r \in Reqs |-> {}]
    /\ http = [r \in Reqs |-> 0]

\* an external call of request r may still fail, f being the calls that
\* failed earlier in the same step
MayFail(r, f) == Cardinality(faults[r] \cup f) < MaxFaults

Outcomes(r, f, good, bad) == IF MayFail(r, f) THEN good \cup bad ELSE good

----------------------------------------------------------------------------
(* The handler, one stretch of code per operator *)

\* lines 411-421, to the await of the gateway post (or to the return):
\* insert the turn when there is a user text, then send when should_respond
Finally(r, p, umt, art, sr, perr, f) ==
    \E ins \in IF Truthy(umt) THEN Outcomes(r, f, {"ok"}, {"fail"})
                              ELSE {"skip"} :
        LET row == [session_id |-> CustomerKey(p.remoteJid),
                    user_message |-> umt.s, agent_response |-> art]
            f2 == IF ins = "fail" THEN f \cup {"insert"} ELSE f
            escaped == ins = "fail" /\ InsertResult(ins) = "raised"
        IN  /\ conversations' =
                   IF ins = "ok" THEN InsertInto(conversations, row)
                                 ELSE conversations
            /\ inserts' = IF ins = "skip" THEN inserts
                          ELSE [inserts EXCEPT ![r] = Append(@, row)]
            /\ faults' = [faults EXCEPT ![r] = @ \cup f2]
            /\ locals' = [locals EXCEPT ![r] =
                   [@ EXCEPT !.user_message_text = umt,
                             !.agent_response_text = art,
                             !.should_respond = sr,
                             !.parsing_error = perr]]
            /\ IF escaped
               THEN /\ pc' = [pc EXCEPT ![r] = "done"]
                    /\ http' = [http EXCEPT ![r] = 500]
                    /\ UNCHANGED sends
               ELSE IF sr
               THEN /\ pc' = [pc EXCEPT ![r] = "send"]
                    /\ sends' = [sends EXCEPT ![r] = Append(@,
                           [to |-> SendAddress(p.remoteJid), text |-> art])]
                    /\ UNCHANGED http
               ELSE /\ pc' = [pc EXCEPT ![r] = "done"]
                    /\ http' = [http EXCEPT ![r] = 200]
                    /\ UNCHANGED sends

\* lines 372-400, to the await of the agent: decide whether to respond, read
\* the profile and the history, build the executor and call the agent
Respond(r, p, umt, perr, f) ==
    LET sr == ShouldRespond(umt, perr) IN
    IF sr /\ ~perr
    THEN \E prof \in Outcomes(r, f, {"none", "row"}, {"fail"}) :
         LET f1 == IF prof = "fail" THEN f \cup {"profile"} ELSE f IN
         \E hist \in Outcomes(r, f1, {"ok"}, {"fail"}) :
         LET f2 == IF hist = "fail" THEN f1 \cup {"history"} ELSE f1 IN
         \E prep \in Outcomes(r, f2, {"ok"}, {"raise"}) :
         LET f3 == IF prep = "raise" THEN f2 \cup {"prepare"} ELSE f2
             key == CustomerKey(p.remoteJid)
             \* get_user_profile, lines 85-95
             user_profile == IF prof = "row" THEN ProfileAna ELSE PyNone
             \* lines 385-393
             chat_history_messages ==
                 IF hist = "ok" THEN ChatHistory(conversations, key) ELSE <<>>
         IN  /\ reads' = [reads EXCEPT ![r] = @ \o
                    <<[table |-> "leads", key |-> key],
                      [table |-> "conversations", key |-> key]>>]
             /\ IF /\ prep = "ok"
                   /\ ProfileResult(prof) = "returned"
                   /\ HistoryResult(hist) = "returned"
                THEN /\ pc' = [pc EXCEPT ![r] = "agent"]
                     /\ agentCalls' = [agentCalls EXCEPT ![r] = Append(@,
                            [input |-> umt.s,
                             chat_history |-> chat_history_messages,
                             contact_number |-> key,
                             user_profile |-> user_profile])]
                     /\ locals' = [locals EXCEPT ![r] =
                            [@ EXCEPT !.user_message_text = umt,
                                      !.should_respond = sr,
                                      !.parsing_error = perr]]
                     /\ faults' = [faults EXCEPT ![r] = @ \cup f3]
                     /\ UNCHANGED <<conversations, inserts, sends, http>>
                ELSE /\ UNCHANGED agentCalls
                     /\ Finally(r, p, umt,
                                ExceptReply(locals[r].agent_response_text),
                                sr, perr, f3)
    ELSE /\ UNCHANGED <<reads, agentCalls>>
         /\ Finally(r, p, umt, locals[r].agent_response_text, sr, perr, f)

----------------------------------------------------------------------------
(* Actions: one per stretch of the handler between two awaits *)

\* lines 318-353: the request arrives; the handler runs until its first await
Receive(r) ==
    /\ UNCHANGED table0
    /\ pc[r] = "idle"
    /\ \E p \in Payloads :
        /\ payload' = [payload EXCEPT ![r] = p]
        /\ IF Ignored(p)
           THEN /\ pc' = [pc EXCEPT ![r] = "done"]
                /\ http' = [http EXCEPT ![r] = 200]
                /\ UNCHANGED <<conversations, locals, fetches, transcribes,
                               reads, agentCalls, inserts, sends, faults>>
           ELSE LET c == Classify(p) IN
                CASE c.kind = "fetch" ->
                       /\ pc' = [pc EXCEPT ![r] = "fetch"]
                       /\ fetches' = [fetches EXCEPT ![r] =
                              Append(@, [message_id |-> p.id,
                                         response |-> "pending"])]
                       /\ locals' = [locals EXCEPT ![r].file_extension = c.ext]
                       /\ UNCHANGED <<conversations, transcribes, reads,
                                      agentCalls, inserts, sends, faults, http>>
                  [] c.kind = "text" ->
                       /\ UNCHANGED <<fetches, transcribes>>
                       /\ Respond(r, p, c.umt, FALSE, {})
                  [] c.kind = "raise" ->
                       /\ UNCHANGED <<fetches, transcribes, reads, agentCalls>>
                       /\ Finally(r, p, locals[r].user_message_text,
                                  ExceptReply(locals[r].agent_response_text),
                                  locals[r].should_respond, FALSE, {})

\* lines 353-364: the gateway answers the media fetch
FetchReturn(r) ==
    /\ UNCHANGED table0
    /\ pc[r] = "fetch"
    /\ UNCHANGED payload
    /\ \E out \in Outcomes(r, {}, {"base64", "nobase64"}, {"error"}) :
        /\ fetches' = [fetches EXCEPT ![r][Len(fetches[r])].response = out]
        /\ IF out = "base64"
           THEN /\ pc' = [pc EXCEPT ![r] = "transcribe"]
                /\ transcribes' = [transcribes EXCEPT ![r] = Append(@,
                       [file_extension |-> locals[r].file_extension])]
                /\ UNCHANGED <<conversations, locals, reads, agentCalls,
                               inserts, sends, faults, http>>
           ELSE IF out = "error" /\ FetchResult(out) = "raised"
           THEN /\ UNCHANGED <<transcribes, reads, agentCalls>>
                /\ Finally(r, payload[r], locals[r].user_message_text,
                           ExceptReply(locals[r].agent_response_text),
                           locals[r].should_respond, FALSE, {"fetch"})
           ELSE /\ UNCHANGED transcribes
                /\ Respond(r, payload[r], locals[r].user_message_text, TRUE,
                           IF out = "error" THEN {"fetch"} ELSE {})

\* transcribe_audio (lines 111-121) returns, then lines 359-360
TranscribeReturn(r) ==
    /\ UNCHANGED table0
    /\ pc[r] = "transcribe"
    /\ UNCHANGED <<payload, fetches, transcribes>>
    /\ \E out \in Outcomes(r, {}, {[kind |-> "text", text |-> t] :
                                      t \in Transcripts \ {TranscriptionErrorText}},
                          {[kind |-> "fail"]}) :
        LET text == IF out.kind = "text" THEN out.text
                    ELSE TranscriptionErrorText
        IN  Respond(r, payload[r], PyStr(text), Contains(text, ErrorMarker),
                    IF out.kind = "fail" THEN {"transcribe"} ELSE {})

\* lines 400-419: the agent answers or raises
AgentReturn(r) ==
    /\ UNCHANGED table0
    /\ pc[r] = "agent"
    /\ UNCHANGED <<payload, fetches, transcribes, reads, agentCalls>>
    /\ \E out \in Outcomes(r, {}, {[kind |-> "reply", text |-> t] : t \in Replies},
                          {[kind |-> "raise"]}) :
        Finally(r, payload[r], locals[r].user_message_text,
                IF out.kind = "reply" THEN out.text
                ELSE ExceptReply(locals[r].agent_response_text),
                locals[r].should_respond, locals[r].parsing_error,
                IF out.kind = "raise" THEN {"agent"} ELSE {})

\* lines 106-108 with a retry in the except clause: a failed post is issued
\* once more
SendReturnRetrying(r) ==
    /\ UNCHANGED table0
    /\ pc[r] = "send"
    /\ \E out \in Outcomes(r, {}, {"ok"}, {"fail"}) :
        /\ faults' = [faults EXCEPT ![r] =
               IF out = "fail" THEN @ \cup {"send"} ELSE @]
        /\ IF out = "fail"
           THEN /\ sends' = [sends EXCEPT ![r] = Append(@, @[Len(@)])]
                /\ UNCHANGED <<pc, http>>
           ELSE /\ pc' = [pc EXCEPT ![r] = "done"]
                /\ http' = [http EXCEPT ![r] = 200]
                /\ UNCHANGED sends
    /\ UNCHANGED <<conversations, payload, locals, fetches, transcribes,
                   reads, agentCalls, inserts>>

\* lines 106-108 and 421: the gateway post of the reply ends
SendReturn(r) ==
    /\ UNCHANGED table0
    /\ pc[r] = "send"
    /\ \E out \in Outcomes(r, {}, {"ok"}, {"fail"}) :
        /\ faults' = [faults EXCEPT ![r] =
               IF out = "fail" THEN @ \cup {"send"} ELSE @]
        /\ http' = [http EXCEPT ![r] =
               IF out = "fail" /\ SendResult(out) = "raised" THEN 500 ELSE 200]
    /\ pc' = [pc EXCEPT ![r] = "done"]
    /\ UNCHANGED <<conversations, payload, locals, fetches, transcribes,
                   reads, agentCalls, inserts, sends>>

Next ==
    \E r \in Reqs :
        \/ Receive(r)
        \/ FetchReturn(r)
        \/ TranscribeReturn(r)
        \/ AgentReturn(r)
        \/ SendReturn(r)

Spec == Init /\ [][Next]_vars

----------------------------------------------------------------------------
(* Vocabulary of the properties *)

Done(r) == pc[r] = "done"

\* the handler of r went past line 321
Accepted(r) ==
    /\ pc[r] # "idle"
    /\ ~payload[r].fromMe
    /\ payload[r].event \in {"messages.upsert", "messages.update"}

\* the rows the requests added to the table
Appended == SubSeq(conversations, Len(table0) + 1, Len(conversations))

\* the requests whose insert reached the table
Stored == {r \in Reqs : inserts[r] # <<>> /\ "insert" \notin faults[r]}

\* the silence sentinel of the agent capability
SilenceMarker == <<"[SILENCE]">>

NonEmptyStr(v) == v.tag = "str" /\ v.s # <<>>

----------------------------------------------------------------------------
(* C1: ignored events have no effect *)

NoEffect(r) ==
    /\ agentCalls[r] = <<>>
    /\ inserts[r] = <<>>
    /\ sends[r] = <<>>
    /\ fetches[r] = <<>>
    /\ transcribes[r] = <<>>
    /\ reads[r] = <<>>

\* C1: a request whose event has fromMe true, or a kind other than
\* messages.upsert and messages.update, invokes no agent, appends no turn,
\* sends nothing, fetches no media and reads no memory; it ends with the
\* table as it was unless another request wrote to it
C1_IgnoredEventsHaveNoEffect ==
    \A r \in Reqs :
        (/\ pc[r] # "idle"
         /\ \/ payload[r].fromMe
            \/ payload[r].event \notin {"messages.upsert", "messages.update"})
        => /\ NoEffect(r)
           /\ Done(r)
           /\ r \notin Stored

\* a self-sent messages.upsert carrying a text was received and dropped
C1_Witness ==
    \E r \in Reqs :
        /\ Done(r)
        /\ payload[r].fromMe
        /\ payload[r].event = "messages.upsert"
        /\ payload[r].message = MsgOi
        /\ http[r] = 200
        /\ NoEffect(r)

----------------------------------------------------------------------------
(* C2: the silence sentinel *)

\* C2: a request whose agent reply contains [SILENCE] appends no turn and
\* sends nothing
C2_SilencedReplyIsSuppressed ==
    \A r \in Reqs :
        (/\ agentCalls[r] # <<>>
         /\ pc[r] \in {"send", "done"}
         /\ Contains(locals[r].agent_response_text, SilenceMarker))
        => inserts[r] = <<>> /\ sends[r] = <<>>

----------------------------------------------------------------------------
(* C3: a failed transcription *)

\* C3: an audio event whose media was fetched and whose transcription gave
\* the error marker invokes no agent, appends no turn and sends nothing
C3_TranscriptionErrorIsNoInput ==
    \A r \in Reqs :
        (/\ transcribes[r] # <<>>
         /\ pc[r] \in {"send", "done"}
         /\ "transcribe" \in faults[r])
        => /\ agentCalls[r] = <<>>
           /\ inserts[r] = <<>>
           /\ sends[r] = <<>>

----------------------------------------------------------------------------
(* C4: text passes through unaltered *)

\* the message is a text event in the sense of C4: no audio attachment, and
\* a non-empty conversation or, that one being empty, a non-empty extended text
IsTextEvent(msg) ==
    /\ msg.tag = "dict"
    /\ msg.audioMessage = Absent
    /\ \/ NonEmptyStr(msg.conversation)
       \/ /\ msg.conversation \in {Absent, PyNone, PyStr(<<>>)}
          /\ msg.extendedTextMessage.tag = "dict"
          /\ NonEmptyStr(msg.extendedTextMessage.text)

\* the text C4 speaks of
TextEventText(msg) ==
    IF NonEmptyStr(msg.conversation) THEN msg.conversation.s
    ELSE msg.extendedTextMessage.text.s

\* C4: for an accepted text event the input of every agent invocation and the
\* user_message of every row the request inserts are that text, atom for
\* atom, and the agent is invoked with it unless building the executor failed
C4_TextIsPassedVerbatim ==
    \A r \in Reqs :
        (Accepted(r) /\ IsTextEvent(payload[r].message))
        => LET t == TextEventText(payload[r].message) IN
           /\ locals[r].user_message_text = PyStr(t)
           /\ \A i \in DOMAIN agentCalls[r] : agentCalls[r][i].input = t
           /\ \A i \in DOMAIN inserts[r] : inserts[r][i].user_message = t
           /\ "prepare" \notin faults[r] => Len(agentCalls[r]) = 1

\* an extended text behind an empty conversation field went to the agent and
\* into the table, with its inner space kept
C4_Witness ==
    \E r \in Reqs :
        /\ Done(r)
        /\ payload[r].message.tag = "dict"
        /\ payload[r].message.conversation = PyStr(<<>>)
        /\ Len(agentCalls[r]) = 1
        /\ agentCalls[r][1].input = <<"quero", " ", "anunciar">>
        /\ r \in Stored
        /\ \E i \in DOMAIN Appended :
               /\ Appended[i].user_message = <<"quero", " ", "anunciar">>
               /\ Appended[i].agent_response = <<"Show de bola!">>

----------------------------------------------------------------------------
(* C5: image and document events *)

\* the message carries an image or a document and neither text nor audio
IsAttachmentEvent(msg) ==
    /\ msg.tag = "dict"
    /\ msg.audioMessage = Absent
    /\ ~Truthy(msg.conversation)
    /\ msg.extendedTextMessage = Absent
    /\ \/ msg.imageMessage # Absent
       \/ msg.documentMessage # Absent

\* the caption or file name of the attachment
AttachmentNames(msg) ==
    LET att == IF msg.imageMessage # Absent THEN msg.imageMessage
               ELSE msg.documentMessage
    IN  {v.s : v \in {w \in {att.fileName, att.caption} : NonEmptyStr(w)}}

\* C5: an accepted image or document event for which no external call
\* failed has its media fetched, gets a normalized input that contains the
\* caption or file name, and the agent is invoked with that input
C5_AttachmentIsNormalized ==
    \A r \in Reqs :
        (/\ Accepted(r)
         /\ Done(r)
         /\ IsAttachmentEvent(payload[r].message)
         /\ faults[r] = {})
        => /\ fetches[r] # <<>>
           /\ NonEmptyStr(locals[r].user_message_text)
           /\ \E n \in AttachmentNames(payload[r].message) :
                  Contains(locals[r].user_message_text.s, n)
           /\ Len(agentCalls[r]) = 1
           /\ agentCalls[r][1].input = locals[r].user_message_text.s

----------------------------------------------------------------------------
(* C6: two concurrent requests of one customer *)

\* the requests that ended holding a reply that is not silenced
NonSilencedReplies ==
    {r \in Reqs :
        /\ Accepted(r)
        /\ locals[r].should_respond
        /\ ~Contains(locals[r].agent_response_text, SilenceMarker)}

\* C6: when two accepted requests of the same customer have both completed,
\* the number of rows they added equals the number of non-silenced replies
\* they produced
C6_TurnsEqualNonSilencedReplies ==
    (/\ \A r \in Reqs : Done(r) /\ Accepted(r)
     /\ \A r1, r2 \in Reqs : payload[r1].remoteJid = payload[r2].remoteJid)
    => Len(Appended) = Cardinality(NonSilencedReplies)

----------------------------------------------------------------------------
(* C7: the fallback apology *)

\* C7: when a request has a non-empty normalized input and the agent call, or
\* the construction of the executor before it, raised, the reply is the
\* apology text, one insert of (customer key, input, apology) was issued and
\* reached the table unless the insert itself failed, and one send of the
\* apology was issued
C7_FaultAfterNormalizationApologizes ==
    \A r \in Reqs :
        (/\ pc[r] \in {"send", "done"}
         /\ faults[r] \cap {"agent", "prepare"} # {})
        => LET apology == <<"Desculpe, estou atualizando meus sistemas. Tente novamente em 1 minuto!">>
               row == [session_id |-> <<"+">> \o SplitHead(payload[r].remoteJid, "@"),
                       user_message |-> locals[r].user_message_text.s,
                       agent_response |-> apology]
           IN  /\ NonEmptyStr(locals[r].user_message_text)
               /\ locals[r].agent_response_text = apology
               /\ inserts[r] = <<row>>
               /\ "insert" \notin faults[r] =>
                      \E i \in DOMAIN Appended : Appended[i] = row
               /\ Len(sends[r]) = 1
               /\ sends[r][1].text = apology

\* the agent was invoked with a text and raised; the request completed with
\* the apology stored and sent
C7_Witness ==
    \E r \in Reqs :
        /\ Done(r)
        /\ "agent" \in faults[r]
        /\ Len(agentCalls[r]) = 1
        /\ r \in Stored
        /\ Len(sends[r]) = 1
        /\ sends[r][1].text = ApologyText
        /\ \E i \in DOMAIN Appended :
               /\ Appended[i].agent_response = ApologyText
               /\ Appended[i].user_message = agentCalls[r][1].input

----------------------------------------------------------------------------
(* C8: a fault before the agent *)

\* the message makes the classification of lines 337-370 raise: a null
\* mimetype in the audio, or a null extended text behind an empty conversation
IsMalformed(msg) ==
    /\ msg.tag = "dict"
    /\ \/ msg.audioMessage # Absent /\ msg.audioMessage.mimetype = PyNone
       \/ /\ msg.audioMessage = Absent
          /\ ~Truthy(msg.conversation)
          /\ msg.extendedTextMessage = PyNone

\* C8: an accepted request whose payload makes the classification raise,
\* before any agent invocation, sends nothing
C8_FaultBeforeAgentIsSilent ==
    \A r \in Reqs :
        (Accepted(r) /\ IsMalformed(payload[r].message))
        => agentCalls[r] = <<>> /\ sends[r] = <<>>

----------------------------------------------------------------------------
(* C9: the handler always answers with success *)

\* the next stretch of the handler of r
HandlerStep(r) ==
    \/ Receive(r)
    \/ FetchReturn(r)
    \/ TranscribeReturn(r)
    \/ AgentReturn(r)
    \/ SendReturn(r)

\* C9: no request ever answers with an error status: a completed request
\* answered 200 whatever external calls failed, and a request that has not
\* completed is never stuck (its next stretch can run whatever the awaited
\* call does)
C9_HandlerAlwaysAnswersSuccess ==
    \A r \in Reqs :
        /\ http[r] \in {0, 200}
        /\ Done(r) <=> http[r] = 200
        /\ ~Done(r) => ENABLED HandlerStep(r)

\* a request whose gateway post failed completed with status 200
C9_Witness ==
    \E r \in Reqs :
        /\ Done(r)
        /\ "send" \in faults[r]
        /\ Len(sends[r]) = 1
        /\ http[r] = 200

----------------------------------------------------------------------------
(* C10: a failed insert *)

\* C10: a request whose insert failed still issues its one send, with the
\* reply text it tried to store, completes with status
\* 200, and adds no row: the rows added to the table are those of the
\* requests whose insert succeeded
C10_FailedInsertIsSwallowed ==
    /\ Len(Appended) = Cardinality(Stored)
    /\ \A r \in Reqs :
           "insert" \in faults[r]
           => /\ pc[r] \in {"send", "done"}
              /\ Len(inserts[r]) = 1
              /\ inserts[r][1].agent_response = locals[r].agent_response_text
              /\ Len(sends[r]) = 1
              /\ sends[r][1].text = inserts[r][1].agent_response
              /\ http[r] = IF Done(r) THEN 200 ELSE 0

\* the agent replied, the insert of the turn failed, the reply was sent and
\* the request completed, the table being as it was at the start
C10_Witness ==
    \E r \in Reqs :
        /\ Done(r)
        /\ "insert" \in faults[r]
        /\ Len(agentCalls[r]) = 1
        /\ Len(sends[r]) = 1
        /\ sends[r][1].text = <<"Show de bola!">>
        /\ http[r] = 200
        /\ conversations = table0

----------------------------------------------------------------------------
(* C11: failed memory reads *)

\* C11: when the profile read or the history read of a request fails, the
\* agent is still invoked unless the preparation of the call itself fails
\* next, with no profile respectively with an empty history; and unless the
\* agent's call fails too, the reply is the agent's answer, not the apology,
\* one row with it is inserted and it is sent
C11_FailedReadIsNoMemory ==
    \A r \in Reqs :
        (faults[r] \cap {"profile", "history"} # {})
        => /\ NonEmptyStr(locals[r].user_message_text)
           /\ "prepare" \notin faults[r]
              => /\ Len(agentCalls[r]) = 1
                 /\ agentCalls[r][1].input = locals[r].user_message_text.s
                 /\ "profile" \in faults[r] =>
                        agentCalls[r][1].user_profile = [tag |-> "none"]
                 /\ "history" \in faults[r] =>
                        agentCalls[r][1].chat_history = <<>>
                 /\ (pc[r] \in {"send", "done"} /\ "agent" \notin faults[r])
                    => /\ locals[r].agent_response_text \in Replies
                       /\ Len(inserts[r]) = 1
                       /\ inserts[r][1].agent_response =
                              locals[r].agent_response_text
                       /\ "insert" \notin faults[r] =>
                              \E i \in DOMAIN Appended :
                                  Appended[i] = inserts[r][1]
                       /\ Len(sends[r]) = 1
                       /\ sends[r][1].text = locals[r].agent_response_text

\* the history read failed although the customer has rows in the table; the
\* agent was invoked without history, answered, and the answer was stored
\* and sent
C11_Witness ==
    \E r \in Reqs :
        /\ Done(r)
        /\ "history" \in faults[r]
        /\ Len(table0) > 0
        /\ payload[r].remoteJid = JidA
        /\ agentCalls[r][1].chat_history = <<>>
        /\ r \in Stored
        /\ sends[r][1].text = <<"Show de bola!">>

----------------------------------------------------------------------------
(* C12: one customer key, one address *)

\* the customer key C12 speaks of
SenderKey(r) == <<"+">> \o SplitHead(payload[r].remoteJid, "@")

\* every store read, agent call and insert of r uses the key of its sender
UsesOnlySenderKey(r) ==
    /\ \A i \in DOMAIN reads[r] : reads[r][i].key = SenderKey(r)
    /\ \A i \in DOMAIN agentCalls[r] :
           agentCalls[r][i].contact_number = SenderKey(r)
    /\ \A i \in DOMAIN inserts[r] : inserts[r][i].session_id = SenderKey(r)

\* C12: every read and insert of a request uses the key "+" followed by the
\* part of its sender address before "@", and every send of the request is
\* addressed to exactly that sender address
C12_OneKeyAndSenderAddress ==
    \A r \in Reqs :
        pc[r] # "idle"
        => /\ UsesOnlySenderKey(r)
           /\ \A i \in DOMAIN sends[r] : sends[r][i].to = payload[r].remoteJid

----------------------------------------------------------------------------
(* C13: the order of the normalizer *)

\* the handler of r is past the normalization (line 372)
Normalized(r) == pc[r] \in {"agent", "send", "done"}

\* the message carries a well-formed audio attachment
HasAudio(msg) ==
    /\ msg.tag = "dict"
    /\ msg.audioMessage # Absent
    /\ msg.audioMessage.mimetype.tag = "str"

\* C13 as stated: for an accepted event with a non-empty conversation text
\* and an audio attachment, the normalized input is that text
C13_TextBeforeAudio ==
    \A r \in Reqs :
        (/\ Accepted(r)
         /\ Normalized(r)
         /\ HasAudio(payload[r].message)
         /\ NonEmptyStr(payload[r].message.conversation))
        => locals[r].user_message_text = payload[r].message.conversation

\* C13 amended: the order is audio, plain text, extended text.  An accepted
\* event with an audio attachment and a message id has its media fetched,
\* and its input is nothing or what the transcription returned, whatever
\* text fields it carries; without audio the input is the conversation
\* text, or the extended text when the conversation text is empty
C13_AudioBeforeText ==
    \A r \in Reqs :
        (Accepted(r) /\ payload[r].message.tag = "dict")
        => LET msg == payload[r].message
               umt == locals[r].user_message_text
           IN  /\ (HasAudio(msg) /\ payload[r].id # <<>>)
                  => /\ Len(fetches[r]) = 1
                     /\ umt \in {PyNone} \cup {PyStr(t) : t \in Transcripts}
                     /\ umt # PyNone => Len(transcribes[r]) = 1
                     /\ \A i \in DOMAIN agentCalls[r] :
                            agentCalls[r][i].input \in Transcripts
               /\ (msg.audioMessage = Absent /\ Normalized(r))
                  => /\ fetches[r] = <<>>
                     /\ NonEmptyStr(msg.conversation) => umt = msg.conversation
                     /\ (/\ ~Truthy(msg.conversation)
                         /\ msg.extendedTextMessage.tag = "dict"
                         /\ NonEmptyStr(msg.extendedTextMessage.text))
                        => umt = msg.extendedTextMessage.text

\* an event with both a conversation text and an audio went to the agent
\* with the transcript of the audio, not with the text
C13_Witness ==
    \E r \in Reqs :
        /\ Done(r)
        /\ payload[r].message.tag = "dict"
        /\ payload[r].message.conversation = PyStr(TextOi)
        /\ payload[r].message.audioMessage = AudioOgg
        /\ Len(fetches[r]) = 1
        /\ Len(transcribes[r]) = 1
        /\ Len(agentCalls[r]) = 1
        /\ agentCalls[r][1].input = TextQuero
        /\ r \in Stored

----------------------------------------------------------------------------
(* C14: a failed media fetch *)

\* C14: an accepted audio event whose media fetch ended in an error or in a
\* response without base64 data is no input and no fatal error: the request
\* completes with status 200 without transcription, store read, agent
\* invocation, insert or send
C14_FailedFetchIsNoInput ==
    \A r \in Reqs :
        (/\ fetches[r] # <<>>
         /\ fetches[r][1].response \in {"error", "nobase64"})
        => /\ Accepted(r)
           /\ HasAudio(payload[r].message)
           /\ Len(fetches[r]) = 1
           /\ transcribes[r] = <<>>
           /\ reads[r] = <<>>
           /\ agentCalls[r] = <<>>
           /\ inserts[r] = <<>>
           /\ sends[r] = <<>>
           /\ Done(r)
           /\ http[r] = 200

\* the fetch of an audio failed with an error and the request completed
\* without any effect
C14_Witness ==
    \E r \in Reqs :
        /\ Done(r)
        /\ payload[r].message = MsgAudio
        /\ fetches[r] = <<[message_id |-> <<"m1">>, response |-> "error"]>>
        /\ "fetch" \in faults[r]
        /\ sends[r] = <<>>
        /\ http[r] = 200

-----------------------------------------------------------------------------
(* C15: an event that carries no text *)

\* no variant of the message holds a non-empty string: the message is absent,
\* or it has no audio and neither of its text fields is a non-empty string
NoTextVariant(msg) ==
    \/ msg.tag # "dict"
    \/ /\ msg.audioMessage = Absent
       /\ ~NonEmptyStr(msg.conversation)
       /\ \/ msg.extendedTextMessage.tag # "dict"
          \/ ~NonEmptyStr(msg.extendedTextMessage.text)

\* C15: an accepted event in which no payload variant yields a non-empty
\* string ends early: the agent is not invoked, no row is inserted and
\* nothing is sent
C15_NoInputTerminatesEarly ==
    \A r \in Reqs :
        (Accepted(r) /\ NoTextVariant(payload[r].message))
        => agentCalls[r] = <<>> /\ inserts[r] = <<>> /\ sends[r] = <<>>

-----------------------------------------------------------------------------
(* C17: the prior context handed to the agent *)

\* the positions in the table of the rows stored under the key
RowsOf(table, key) == {i \in DOMAIN table : table[i].session_id = key}

\* of those, the positions with fewer than six later rows of the same key
LatestRows(table, key) ==
    {i \in RowsOf(table, key) :
        Cardinality({j \in RowsOf(table, key) : j > i}) < 6}

\* the turn that n-th message of the context belongs to, counted from the
\* oldest of the latest rows
TurnAt(table, key, n) ==
    CHOOSE i \in LatestRows(table, key) :
        Cardinality({j \in LatestRows(table, key) : j < i}) = (n - 1) \div 2

\* the context is the latest rows of the key and nothing else, oldest first,
\* each as the customer's message followed by the answer
IsContextOf(h, table, key) ==
    /\ Len(h) = 2 * Cardinality(LatestRows(table, key))
    /\ Len(h) <= 2 * 6
    /\ \A n \in DOMAIN h :
           LET row == table[TurnAt(table, key, n)] IN
           /\ row.session_id = key
           /\ h[n] = IF n % 2 = 1
                     THEN [role |-> "human", content |-> row.user_message]
                     ELSE [role |-> "ai", content |-> row.agent_response]

\* C17: whenever a request invokes the agent after a history read that did
\* not fail, the context of the call is, oldest first and as alternating
\* customer and assistant messages, exactly the at most 6 latest rows that
\* the table held under the sender's key when it was read
C17_ContextIsLatestTurnsOfKey ==
    [][\A r \in Reqs :
          (Len(agentCalls'[r]) > Len(agentCalls[r])
           /\ "history" \notin faults'[r])
          => LET call == agentCalls'[r][Len(agentCalls'[r])] IN
             /\ call.contact_number = SenderKey(r)'
             /\ IsContextOf(call.chat_history, conversations,
                            call.contact_number)]_vars

\* customer A had six rows and customer B two; a first request of A added a
\* seventh, and the context of A's next request starts at A's second row and
\* ends with the answer given to the first request
C17_Witness ==
    \E r \in Reqs : \E q \in Reqs \ {r} :
        /\ Len(table0) = MaxPrior
        /\ q \in Stored
        /\ payload[q].remoteJid = JidA
        /\ Len(agentCalls[r]) = 1
        /\ payload[r].remoteJid = JidA
        /\ "history" \notin faults[r]
        /\ LET h == agentCalls[r][1].chat_history IN
           /\ Len(h) = 12
           /\ h[1].content = <<"p2">>
           /\ h[11].content = inserts[q][1].user_message
           /\ h[12].content = inserts[q][1].agent_response
           /\ \A n \in DOMAIN h : h[n].content # <<"p4">>

-----------------------------------------------------------------------------
(* C18: the row is stored before the reply is sent *)

\* the row that r stores for the reply it sends
TurnOf(r) ==
    [session_id |-> SenderKey(r),
     user_message |-> locals[r].user_message_text.s,
     agent_response |-> sends[r][1].text]

\* the context holds the turn as a customer message followed by the answer
HoldsTurn(h, row) ==
    \E n \in DOMAIN h :
        /\ n < Len(h)
        /\ h[n] = [role |-> "human", content |-> row.user_message]
        /\ h[n + 1] = [role |-> "ai", content |-> row.agent_response]

-----------------------------------------------------------------------------
(* C19: the table only grows *)

\* the table t extends the table s
Extends(t, s) ==
    /\ Len(t) >= Len(s)
    /\ \A i \in DOMAIN s : t[i] = s[i]

\* C19: no step of any request modifies or deletes a row of the
\* conversations table: after every step the table holds the rows it held
\* before, unchanged and in their places, so the table of any later state
\* extends the table of any earlier one
C19_LogIsAppendOnly ==
    [][Extends(conversations', conversations)]_vars

\* the table held rows of two customers before the first request; both
\* requests have added a row for the same customer and the earlier rows,
\* of that customer and of the other, are still in their places
C19_Witness ==
    /\ Len(table0) = MaxPrior
    /\ Stored = Reqs
    /\ \A r \in Reqs : Done(r) /\ payload[r].remoteJid = JidA
    /\ Len(conversations) = Len(table0) + 2
    /\ \A i \in DOMAIN table0 : conversations[i] = table0[i]
    /\ \E i \in DOMAIN table0 : table0[i].session_id = KeyB

-----------------------------------------------------------------------------
(* C20: what is stored is what is sent *)

\* C20: a request that inserts a row also sends a reply, once, and the
\* answer in the row is the text it sends; every row the requests have added
\* to the table is the row of a request that sent that answer
C20_StoredReplyIsSentReply ==
    /\ \A r \in Reqs :
           inserts[r] # <<>>
           => /\ Len(inserts[r]) = 1
              /\ Len(sends[r]) = 1
              /\ sends[r][1].text = inserts[r][1].agent_response
    /\ \A i \in DOMAIN Appended :
           \E r \in Stored :
               /\ Appended[i] = inserts[r][1]
               /\ sends[r] # <<>>
               /\ sends[r][1].text = Appended[i].agent_response

\* the transcription of an audio failed: the agent was not invoked, and the
\* row that was added holds the fallback text, which is also what was sent
C20_Witness ==
    \E r \in Reqs :
        /\ Done(r)
        /\ "transcribe" \in faults[r]
        /\ agentCalls[r] = <<>>
        /\ r \in Stored
        /\ \E i \in DOMAIN Appended :
               /\ Appended[i].user_message = TranscriptionErrorText
               /\ Appended[i].agent_response = LapseText
        /\ sends[r][1].text = LapseText

-----------------------------------------------------------------------------
(* C21: one agent call, one insert, one send *)

\* C21: a request invokes the agent at most once, inserts at most one row
\* and sends at most one message, whatever calls failed, and it invokes the
\* agent only with a non-empty input, the one it normalized
C21_AtMostOnceEach ==
    \A r \in Reqs :
        /\ Len(agentCalls[r]) <= 1
        /\ Len(inserts[r]) <= 1
        /\ Len(sends[r]) <= 1
        /\ agentCalls[r] # <<>>
           => /\ NonEmptyStr(locals[r].user_message_text)
              /\ agentCalls[r][1].input = locals[r].user_message_text.s

\* both requests are complete; the agent call of one failed and the send of
\* the other failed, and each made one agent call, one insert and one send
C21_Witness ==
    \E r \in Reqs : \E q \in Reqs \ {r} :
        /\ Done(r) /\ Done(q)
        /\ "agent" \in faults[r]
        /\ "send" \in faults[q]
        /\ \A x \in {r, q} :
               /\ Len(agentCalls[x]) = 1
               /\ Len(inserts[x]) = 1
               /\ Len(sends[x]) = 1
        /\ sends[r][1].text = ApologyText

====
